---- MODULE Spec2Model ----
(***************************************************************************)
(* Model of fix_encoding.py: the substitution table ENCODING_FIXES, the    *)
(* file processor process_file and the directory walker main.              *)
(*                                                                         *)
(* Text is a sequence of Unicode code points, file content a sequence of   *)
(* bytes.  A path is the sequence of its stem and its dot-suffixes, so     *)
(* that "a.php.backup" is <<"a", ".php", ".backup">>.                      *)
(***************************************************************************)
EXTENDS Integers, Sequences, FiniteSets, TLC

(***************************************************************************)
(* Bounds of the model.                                                    *)
(***************************************************************************)
\* number of tokens an input text is built from
MaxLen == 2
\* number of invocations of the program on the same directory
MaxRuns == 2
\* number of occurrences of one pattern in the texts of InitOcc
MaxOcc == 3
\* number of bytes of the raw file contents of InitBytes
MaxBytes == 3

(***************************************************************************)
(* WEB_EXTENSIONS, line 16.                                                *)
(***************************************************************************)
WEB_EXTENSIONS == {".php", ".html", ".htm", ".css", ".js", ".xml", ".json"}

(***************************************************************************)
(* The dict display of lines 19-68 as written: 41 key/value pairs in       *)
(* source order, keys and values as code points.                           *)
(***************************************************************************)
ENCODING_FIXES_display ==
    <<
       <<<<195, 402, 194, 188>>,
         <<252>>>>,  \* line 21
       <<<<195, 402, 194, 164>>,
         <<228>>>>,  \* line 22
       <<<<195, 402, 194, 182>>,
         <<246>>>>,  \* line 23
       <<<<195, 402, 197, 184>>,
         <<223>>>>,  \* line 24
       <<<<195, 402, 197, 161>>,
         <<223>>>>,  \* line 25
       <<<<195, 402, 194, 8222>>,
         <<196>>>>,  \* line 26
       <<<<195, 402, 194, 8211>>,
         <<214>>>>,  \* line 27
       <<<<195, 402, 197>>,
         <<220>>>>,  \* line 28
       <<<<195, 188>>,
         <<252>>>>,  \* line 31
       <<<<195, 164>>,
         <<228>>>>,  \* line 32
       <<<<195, 182>>,
         <<246>>>>,  \* line 33
       <<<<195, 376>>,
         <<223>>>>,  \* line 34
       <<<<195, 8222>>,
         <<196>>>>,  \* line 35
       <<<<195, 8211>>,
         <<214>>>>,  \* line 36
       <<<<195, 339>>,
         <<220>>>>,  \* line 37
       <<<<115, 112, 195, 164, 116, 101, 114>>,
         <<115, 112, 228, 116, 101, 114>>>>,  \* line 40
       <<<<109, 195, 188, 115, 115, 101, 110>>,
         <<109, 252, 115, 115, 101, 110>>>>,  \* line 41
       <<<<102, 195, 188, 114>>,
         <<102, 252, 114>>>>,  \* line 42
       <<<<195, 188, 98, 101, 114>>,
         <<252, 98, 101, 114>>>>,  \* line 43
       <<<<101, 114, 102, 195, 188, 108, 108, 116>>,
         <<101, 114, 102, 252, 108, 108, 116>>>>,  \* line 44
       <<<<97, 117, 115, 102, 195, 188, 108, 108, 101, 110>>,
         <<97, 117, 115, 102, 252, 108, 108, 101, 110>>>>,  \* line 45
       <<<<122, 117, 114, 195, 188, 99, 107>>,
         <<122, 117, 114, 252, 99, 107>>>>,  \* line 46
       <<<<71, 114, 195, 188, 195, 376, 101, 110>>,
         <<71, 114, 252, 223, 101, 110>>>>,  \* line 47
       <<<<98, 101, 115, 116, 195, 164, 116, 105, 103, 101, 110>>,
         <<98, 101, 115, 116, 228, 116, 105, 103, 101, 110>>>>,  \* line 48
       <<<<85, 110, 103, 195, 188, 108, 116, 105, 103>>,
         <<85, 110, 103, 252, 108, 116, 105, 103>>>>,  \* line 49
       <<<<103, 195, 188, 108, 116, 105, 103>>,
         <<103, 252, 108, 116, 105, 103>>>>,  \* line 50
       <<<<83, 116, 195, 164, 114, 107, 101>>,
         <<83, 116, 228, 114, 107, 101>>>>,  \* line 51
       <<<<71, 114, 111, 195, 376, 98, 117, 99, 104, 115, 116, 97, 98, 101>>,
         <<71, 114, 111, 223, 98, 117, 99, 104, 115, 116, 97, 98, 101>>>>,  \* line 52
       <<<<119, 195, 164, 104, 108, 101, 110>>,
         <<119, 228, 104, 108, 101, 110>>>>,  \* line 53
       <<<<66, 101, 110, 195, 182, 116, 105, 103, 116>>,
         <<66, 101, 110, 246, 116, 105, 103, 116>>>>,  \* line 54
       <<<<70, 117, 110, 107, 116, 105, 111, 110, 97, 108, 105, 116, 195, 164, 116>>,
         <<70, 117, 110, 107, 116, 105, 111, 110, 97, 108, 105, 116, 228, 116>>>>,  \* line 55
       <<<<80, 101, 114, 115, 195, 182, 110, 108, 105, 99, 104, 101>>,
         <<80, 101, 114, 115, 246, 110, 108, 105, 99, 104, 101>>>>,  \* line 56
       <<<<86, 79, 76, 76, 83, 84, 195, 8222, 78, 68, 73, 71>>,
         <<86, 79, 76, 76, 83, 84, 196, 78, 68, 73, 71>>>>,  \* line 57
       <<<<226, 8218, 172>>,
         <<8364>>>>,  \* line 60
       <<<<226, 8364, 339>>,
         <<8220>>>>,  \* line 61
       <<<<226, 8364, 65533>>,
         <<8221>>>>,  \* line 62
       <<<<226, 8364, 8482>>,
         <<8217>>>>,  \* line 63
       <<<<226, 8364, 8220>>,
         <<8211>>>>,  \* line 64
       <<<<226, 8364, 8221>>,
         <<8212>>>>,  \* line 65
       <<<<226, 8224, 8217>>,
         <<8592>>>>,  \* line 66
       <<<<226, 8224, 8217>>,
         <<8594>>>>   \* line 67
    >>

\* position of the first pair of the display whose key is k (0 if none)
RECURSIVE FirstIndex(_, _, _)
FirstIndex(pairs, k, i) ==
    IF i > Len(pairs) THEN 0
    ELSE IF pairs[i][1] = k THEN i
    ELSE FirstIndex(pairs, k, i + 1)

\* position of the last pair of the display whose key is k (0 if none)
RECURSIVE LastIndex(_, _, _)
LastIndex(pairs, k, i) ==
    IF i < 1 THEN 0
    ELSE IF pairs[i][1] = k THEN i
    ELSE LastIndex(pairs, k, i - 1)

\* a dict built by keeping, for a repeated key, the value written first
RECURSIVE DictKeepFirst(_, _)
DictKeepFirst(pairs, i) ==
    IF i > Len(pairs) THEN << >>
    ELSE IF FirstIndex(pairs, pairs[i][1], 1) < i
         THEN DictKeepFirst(pairs, i + 1)
         ELSE <<pairs[i]>> \o DictKeepFirst(pairs, i + 1)

(***************************************************************************)
(* Python's dict display: the pairs are inserted in source order; a key    *)
(* that is written again keeps the position of its first insertion and     *)
(* takes the value written last.  Iteration follows insertion order.       *)
(***************************************************************************)
RECURSIVE DictFromDisplay(_, _)
DictFromDisplay(pairs, i) ==
    IF i > Len(pairs) THEN << >>
    ELSE IF FirstIndex(pairs, pairs[i][1], 1) < i
         THEN DictFromDisplay(pairs, i + 1)
         ELSE <<<<pairs[i][1],
                  pairs[LastIndex(pairs, pairs[i][1], Len(pairs))][2]>>>>
              \o DictFromDisplay(pairs, i + 1)

\* ENCODING_FIXES as the interpreter holds it, in iteration order
ENCODING_FIXES == DictFromDisplay(ENCODING_FIXES_display, 1)

(***************************************************************************)
(* str.count and str.replace: non-overlapping occurrences of a non-empty   *)
(* pattern, scanned from the left.                                         *)
(***************************************************************************)
Matches(s, p, i) ==
    /\ i + Len(p) - 1 <= Len(s)
    /\ \A k \in 1..Len(p) : s[i + k - 1] = p[k]

RECURSIVE CountFrom(_, _, _)
CountFrom(s, p, i) ==
    IF i + Len(p) - 1 > Len(s) THEN 0
    ELSE IF Matches(s, p, i) THEN 1 + CountFrom(s, p, i + Len(p))
    ELSE CountFrom(s, p, i + 1)

str_count(s, p) == CountFrom(s, p, 1)

RECURSIVE ReplaceFrom(_, _, _, _)
ReplaceFrom(s, p, r, i) ==
    IF i + Len(p) - 1 > Len(s) THEN SubSeq(s, i, Len(s))
    ELSE IF Matches(s, p, i) THEN r \o ReplaceFrom(s, p, r, i + Len(p))
    ELSE <<s[i]>> \o ReplaceFrom(s, p, r, i + 1)

str_replace(s, p, r) == ReplaceFrom(s, p, r, 1)

(***************************************************************************)
(* The substitution loop of process_file, lines 141-146: every entry in    *)
(* iteration order, on the text as the earlier entries left it.  printed   *)
(* collects the diagnostic line of each entry with a nonzero count.        *)
(***************************************************************************)
RECURSIVE FixLoop(_, _, _, _, _)
FixLoop(fixes, i, content, total_replacements, printed) ==
    IF i > Len(fixes)
    THEN [content |-> content,
          total_replacements |-> total_replacements,
          printed |-> printed]
    ELSE LET wrong == fixes[i][1]
             correct == fixes[i][2]
             before_count == str_count(content, wrong)
         IN  IF before_count > 0
             THEN FixLoop(fixes, i + 1, str_replace(content, wrong, correct),
                          total_replacements + before_count,
                          Append(printed, <<wrong, correct, before_count>>))
             ELSE FixLoop(fixes, i + 1, content, total_replacements, printed)

ApplyFixes(text) == FixLoop(ENCODING_FIXES, 1, text, 0, << >>)

(***************************************************************************)
(* The codecs named in line 124 and line 156.  A decoder yields            *)
(* [ok, text]; ok is FALSE where Python raises UnicodeDecodeError.         *)
(***************************************************************************)
IsCont(b) == b >= 128 /\ b <= 191

\* strict UTF-8: no overlong forms, no surrogates, nothing above U+10FFFF
RECURSIVE Utf8DecodeFrom(_, _, _)
Utf8DecodeFrom(bytes, i, acc) ==
    IF i > Len(bytes) THEN [ok |-> TRUE, text |-> acc]
    ELSE LET b0 == bytes[i]
             n  == Len(bytes) - i + 1
             b1 == IF n >= 2 THEN bytes[i + 1] ELSE 0
             b2 == IF n >= 3 THEN bytes[i + 2] ELSE 0
             b3 == IF n >= 4 THEN bytes[i + 3] ELSE 0
             bad == [ok |-> FALSE, text |-> << >>]
         IN  IF b0 < 128
             THEN Utf8DecodeFrom(bytes, i + 1, Append(acc, b0))
             ELSE IF b0 >= 194 /\ b0 <= 223
             THEN IF n >= 2 /\ IsCont(b1)
                  THEN Utf8DecodeFrom(bytes, i + 2,
                           Append(acc, (b0 - 192) * 64 + (b1 - 128)))
                  ELSE bad
             ELSE IF b0 >= 224 /\ b0 <= 239
             THEN IF /\ n >= 3
                     /\ IsCont(b1)
                     /\ IsCont(b2)
                     /\ (b0 = 224 => b1 >= 160)
                     /\ (b0 = 237 => b1 <= 159)
                  THEN Utf8DecodeFrom(bytes, i + 3,
                           Append(acc, (b0 - 224) * 4096 + (b1 - 128) * 64
                                       + (b2 - 128)))
                  ELSE bad
             ELSE IF b0 >= 240 /\ b0 <= 244
             THEN IF /\ n >= 4
                     /\ IsCont(b1)
                     /\ IsCont(b2)
                     /\ IsCont(b3)
                     /\ (b0 = 240 => b1 >= 144)
                     /\ (b0 = 244 => b1 <= 143)
                  THEN Utf8DecodeFrom(bytes, i + 4,
                           Append(acc, (b0 - 240) * 262144 + (b1 - 128) * 4096
                                       + (b2 - 128) * 64 + (b3 - 128)))
                  ELSE bad
             ELSE bad

Utf8Decode(bytes) == Utf8DecodeFrom(bytes, 1, << >>)

\* bytes 0x80..0x9F of code page 1252; 0 marks the five undefined bytes
Cp1252High ==
    <<8364, 0, 8218, 402, 8222, 8230, 8224, 8225,
      710, 8240, 352, 8249, 338, 0, 381, 0,
      0, 8216, 8217, 8220, 8221, 8226, 8211, 8212,
      732, 8482, 353, 8250, 339, 0, 382, 376>>

Cp1252Defined(b) == (b >= 128 /\ b <= 159) => Cp1252High[b - 127] # 0

Cp1252Decode(bytes) ==
    IF \A i \in 1..Len(bytes) : Cp1252Defined(bytes[i])
    THEN [ok |-> TRUE,
          text |-> [i \in 1..Len(bytes) |->
                       IF bytes[i] >= 128 /\ bytes[i] <= 159
                       THEN Cp1252High[bytes[i] - 127]
                       ELSE bytes[i]]]
    ELSE [ok |-> FALSE, text |-> << >>]

\* ISO-8859-1: every byte is the code point of the same number
Latin1Decode(bytes) == [ok |-> TRUE, text |-> bytes]

Decode(encoding, bytes) ==
    CASE encoding = "utf-8" -> Utf8Decode(bytes)
      [] encoding = "windows-1252" -> Cp1252Decode(bytes)
      [] encoding = "iso-8859-1" -> Latin1Decode(bytes)
      [] encoding = "cp1252" -> Cp1252Decode(bytes)

RECURSIVE Utf8EncodeFrom(_, _)
Utf8EncodeFrom(text, i) ==
    IF i > Len(text) THEN << >>
    ELSE LET c == text[i]
             enc == IF c < 128 THEN <<c>>
                    ELSE IF c < 2048
                    THEN <<192 + (c \div 64), 128 + (c % 64)>>
                    ELSE IF c < 65536
                    THEN <<224 + (c \div 4096), 128 + ((c \div 64) % 64),
                           128 + (c % 64)>>
                    ELSE <<240 + (c \div 262144), 128 + ((c \div 4096) % 64),
                           128 + ((c \div 64) % 64), 128 + (c % 64)>>
         IN  enc \o Utf8EncodeFrom(text, i + 1)

Utf8Encode(text) == Utf8EncodeFrom(text, 1)

(***************************************************************************)
(* Text mode of open(): reading with universal newlines turns "\r\n" and   *)
(* "\r" into "\n"; writing turns "\n" into the platform's line separator.  *)
(***************************************************************************)
CR == 13
LF == 10

RECURSIVE ReadNewlines(_, _)
ReadNewlines(text, i) ==
    IF i > Len(text) THEN << >>
    ELSE IF text[i] = CR
    THEN IF i < Len(text) /\ text[i + 1] = LF
         THEN <<LF>> \o ReadNewlines(text, i + 2)
         ELSE <<LF>> \o ReadNewlines(text, i + 1)
    ELSE <<text[i]>> \o ReadNewlines(text, i + 1)

RECURSIVE WriteNewlines(_, _, _)
WriteNewlines(text, linesep, i) ==
    IF i > Len(text) THEN << >>
    ELSE IF text[i] = LF THEN linesep \o WriteNewlines(text, linesep, i + 1)
    ELSE <<text[i]>> \o WriteNewlines(text, linesep, i + 1)

\* open(file_path, 'r', encoding=encoding).read()
ReadText(encoding, bytes) ==
    LET d == Decode(encoding, bytes)
    IN  [ok |-> d.ok, text |-> ReadNewlines(d.text, 1)]

\* open(file_path, 'w', encoding='utf-8').write(content)
WriteText(content, linesep) == Utf8Encode(WriteNewlines(content, linesep, 1))

(***************************************************************************)
(* The loop of lines 124-131: the first encoding of the list that reads    *)
(* the file without UnicodeDecodeError; content None if there is none.     *)
(***************************************************************************)
\* the list of line 124 without the encoding that accepts every byte
EncodingsWithoutLatin1 == <<"utf-8", "windows-1252", "cp1252">>

Encodings == <<"utf-8", "windows-1252", "iso-8859-1", "cp1252">>

RECURSIVE TryEncodings(_, _, _)
TryEncodings(encodings, bytes, i) ==
    IF i > Len(encodings)
    THEN [content |-> << >>, original_encoding |-> "None"]
    ELSE LET r == ReadText(encodings[i], bytes)
         IN  IF r.ok
             THEN [content |-> r.text, original_encoding |-> encodings[i]]
             ELSE TryEncodings(encodings, bytes, i + 1)

(***************************************************************************)
(* The directory the program is run on.  An entry of the file system is    *)
(* [kind, data] with kind "file", "dir" or "none".                         *)
(***************************************************************************)
fileA == <<"a", ".php">>
fileB == <<"b", ".HTM">>
fileC == <<"c", ".txt">>
dirD  == <<"d", ".js">>

\* str(file_path) + '.backup', line 152
backup_path(path) == Append(path, ".backup")

\* the order in which rglob('*') yields the entries that exist, line 209
Listing == <<fileA, backup_path(fileA), dirD, fileB, backup_path(fileB), fileC>>

AllPaths == {Listing[i] : i \in 1..Len(Listing)}

NoEntry == [kind |-> "none", data |-> << >>]
DirEntry == [kind |-> "dir", data |-> << >>]
FileEntry(bytes) == [kind |-> "file", data |-> bytes]

\* Path.suffix and str.lower on the suffixes of the listing
suffix(path) == IF Len(path) > 1 THEN path[Len(path)] ELSE ""
lower(s) == IF s = ".HTM" THEN ".htm" ELSE s

\* the filter of line 210
Recognized(entries, path) ==
    /\ entries[path].kind = "file"
    /\ lower(suffix(path)) \in WEB_EXTENSIONS

VARIABLES
    fs,                  \* the file system: path -> entry
    root_exists,         \* whether args.path exists
    linesep,             \* os.linesep of the platform
    pc,                  \* position of the control flow
    runs,                \* invocations of the program so far
    dry_run,             \* args.dry_run
    idx,                 \* position of the rglob iterator in Listing
    total_files,         \* main: counters of lines 198-200
    changed_files,
    total_replacements,
    exit_code,           \* -1 while the program runs
    file_path,           \* process_file: its argument and locals
    content,
    original_content,
    original_encoding,
    replacements,        \* process_file's local total_replacements
    printed,             \* diagnostic lines of line 146
    ret,                 \* the pair process_file returns
    err,                 \* "none", or the step of process_file that raised
    call_fs,             \* the file system when process_file was called
    run_fs,              \* the file system when the program was started
    log                  \* the finished calls of process_file

vars == <<fs, root_exists, linesep, pc, runs, dry_run, idx, total_files,
          changed_files, total_replacements, exit_code, file_path, content,
          original_content, original_encoding, replacements, printed, ret,
          err, call_fs, run_fs, log>>

mainVars == <<total_files, changed_files, total_replacements, exit_code>>
procVars == <<file_path, content, original_content, original_encoding,
              replacements, printed, ret, err, call_fs>>
envVars == <<root_exists, linesep>>

(***************************************************************************)
(* Input texts: concatenations of up to MaxLen tokens.                     *)
(***************************************************************************)
Tokens ==
    { <<195>>,                       \* a lone first half of a broken umlaut
      <<195, 188>>,                  \* broken u-umlaut
      <<102, 195, 188, 114>>,        \* broken "fuer"
      <<195, 402, 194, 188>>,        \* doubly broken u-umlaut
      <<226, 8364, 8220>>,           \* broken en dash
      <<226, 8224, 8217>>,           \* broken arrow
      <<8592>>,                      \* left arrow
      <<CR, LF>> }

RECURSIVE TextsOf(_, _)
TextsOf(tokens, n) ==
    IF n = 0 THEN { << >> }
    ELSE LET shorter == TextsOf(tokens, n - 1)
         IN  shorter \cup { t \o k : t \in shorter, k \in tokens }

LineSeps == { <<LF>>, <<CR, LF>> }

\* the fixed content of the other files: a broken u-umlaut, stored as UTF-8
OtherContent == Utf8Encode(<<195, 188>>)

Directory(bytesA) ==
    [p \in AllPaths |->
        IF p = fileA THEN FileEntry(bytesA)
        ELSE IF p = fileB \/ p = fileC THEN FileEntry(OtherContent)
        ELSE IF p = dirD THEN DirEntry
        ELSE NoEntry]

NoDirectory == [p \in AllPaths |-> NoEntry]

InitRest ==
    /\ linesep \in LineSeps
    /\ pc = "start"
    /\ runs = 1
    /\ dry_run = FALSE
    /\ idx = 1
    /\ total_files = 0
    /\ changed_files = 0
    /\ total_replacements = 0
    /\ exit_code = -1
    /\ file_path = << >>
    /\ content = << >>
    /\ original_content = << >>
    /\ original_encoding = "None"
    /\ replacements = 0
    /\ printed = << >>
    /\ ret = <<0, FALSE>>
    /\ err = "none"
    /\ call_fs = fs
    /\ run_fs = fs
    /\ log = << >>

\* file a.php holds the UTF-8 form of a text built from the tokens
Init ==
    /\ \E t \in TextsOf(Tokens, MaxLen), e \in BOOLEAN :
          fs = IF e THEN Directory(Utf8Encode(t)) ELSE NoDirectory
    /\ root_exists = (fs # NoDirectory)
    /\ InitRest

(***************************************************************************)
(* main, lines 189-207: the arguments are parsed, the counters are set to  *)
(* zero, and a root that does not exist ends the program with exit code 1. *)
(***************************************************************************)
CallProc(path) ==
    /\ file_path' = path
    /\ content' = << >>
    /\ original_content' = << >>
    /\ original_encoding' = "None"
    /\ replacements' = 0
    /\ printed' = << >>
    /\ ret' = <<0, FALSE>>
    /\ err' = "none"
    /\ call_fs' = fs

MainStart ==
    /\ pc = "start"
    /\ dry_run' \in BOOLEAN
    /\ total_files' = 0
    /\ changed_files' = 0
    /\ total_replacements' = 0
    /\ idx' = 1
    /\ run_fs' = fs
    /\ IF ~root_exists
       THEN /\ exit_code' = 1
            /\ pc' = "exited"
       ELSE /\ exit_code' = -1
            /\ pc' = "walk"
    /\ CallProc(<< >>)
    /\ UNCHANGED <<fs, envVars, runs, log>>

(***************************************************************************)
(* main, lines 209-212: the next entry of the traversal.  A regular file   *)
(* with a recognized extension is counted and handed to process_file;      *)
(* any other entry is skipped.                                             *)
(***************************************************************************)
WalkNext ==
    /\ pc = "walk"
    /\ idx <= Len(Listing)
    /\ LET path == Listing[idx]
       IN  IF Recognized(fs, path)
           THEN /\ total_files' = total_files + 1
                /\ CallProc(path)
                /\ pc' = "read"
                /\ idx' = idx
           ELSE /\ idx' = idx + 1
                /\ pc' = "walk"
                /\ UNCHANGED <<total_files, procVars>>
    /\ UNCHANGED <<fs, envVars, runs, dry_run, changed_files,
                   total_replacements, exit_code, run_fs, log>>

(***************************************************************************)
(* process_file, lines 119-149 and 160-165: the file is decoded with the   *)
(* first encoding that accepts it, the substitutions are applied, and the  *)
(* call returns unless a changed text is to be written.                    *)
(***************************************************************************)
\* line 149 with the comparison dropped
ChangedAlways(new_content, old_content) == TRUE

\* line 149
Changed(new_content, old_content) == new_content # old_content

\* line 150 with the test of dry_run dropped
WritesAlways(dry) == TRUE

\* line 150
WritesFile(dry) == ~dry

\* line 163
ChangedResult(count) == <<count, TRUE>>

\* lines 135, 165 and 169
NoResult == <<0, FALSE>>

ReadFile ==
    /\ pc = "read"
    /\ LET t == TryEncodings(Encodings, fs[file_path].data, 1)
           r == ApplyFixes(t.content)
       IN  IF t.original_encoding = "None"
           THEN /\ err' = "decode"
                /\ ret' = NoResult
                /\ pc' = "ret"
                /\ UNCHANGED <<content, original_content, original_encoding,
                               replacements, printed>>
           ELSE /\ original_encoding' = t.original_encoding
                /\ original_content' = t.content
                /\ content' = r.content
                /\ replacements' = r.total_replacements
                /\ printed' = r.printed
                /\ err' = "none"
                /\ IF Changed(r.content, t.content)
                   THEN IF WritesFile(dry_run)
                        THEN /\ pc' = "backup"
                             /\ ret' = ret
                        ELSE /\ pc' = "ret"
                             /\ ret' = ChangedResult(r.total_replacements)
                   ELSE /\ pc' = "ret"
                        /\ ret' = NoResult
    /\ UNCHANGED <<fs, envVars, runs, dry_run, idx, mainVars, file_path,
                   call_fs, run_fs, log>>

\* the OSError of line 126 not caught: the program ends with a traceback
ReadFailEscapes ==
    /\ pc = "read"
    /\ err' = "read"
    /\ exit_code' = 1
    /\ pc' = "exited"
    /\ UNCHANGED <<fs, envVars, runs, dry_run, idx, total_files,
                   changed_files, total_replacements, file_path, content,
                   original_content, original_encoding, replacements, printed,
                   ret, call_fs, run_fs, log>>

\* open() of line 126 raises an OSError: caught in line 167
ReadFail ==
    /\ pc = "read"
    /\ err' = "read"
    /\ ret' = NoResult
    /\ pc' = "ret"
    /\ UNCHANGED <<fs, envVars, runs, dry_run, idx, mainVars, file_path,
                   content, original_content, original_encoding, replacements,
                   printed, call_fs, run_fs, log>>

(***************************************************************************)
(* process_file, lines 152-153: shutil.copy2 copies the bytes of the file  *)
(* to <path>.backup, replacing a backup that is there.                     *)
(***************************************************************************)
BackupCopy ==
    /\ pc = "backup"
    /\ fs' = [fs EXCEPT ![backup_path(file_path)] = fs[file_path]]
    /\ pc' = "write"
    /\ UNCHANGED <<envVars, runs, dry_run, idx, mainVars, procVars, run_fs,
                   log>>

\* the error of shutil.copy2 swallowed: the file is written all the same
BackupFailIgnored ==
    /\ pc = "backup"
    /\ pc' = "write"
    /\ UNCHANGED <<fs, envVars, runs, dry_run, idx, mainVars, procVars, run_fs,
                   log>>

\* shutil.copy2 raises before it has written anything: caught in line 167
BackupFail ==
    /\ pc = "backup"
    /\ err' = "backup"
    /\ ret' = NoResult
    /\ pc' = "ret"
    /\ UNCHANGED <<fs, envVars, runs, dry_run, idx, mainVars, file_path,
                   content, original_content, original_encoding, replacements,
                   printed, call_fs, run_fs, log>>

(***************************************************************************)
(* process_file, lines 156-163: the file is overwritten with the final     *)
(* text as UTF-8, and the call returns the count and True.                 *)
(***************************************************************************)
WriteFile ==
    /\ pc = "write"
    /\ fs' = [fs EXCEPT ![file_path] = FileEntry(WriteText(content, linesep))]
    /\ ret' = ChangedResult(replacements)
    /\ pc' = "ret"
    /\ UNCHANGED <<envVars, runs, dry_run, idx, mainVars, file_path, content,
                   original_content, original_encoding, replacements, printed,
                   err, call_fs, run_fs, log>>

\* what a failed write leaves in the file: its old bytes when open() raised,
\* else nothing or the first half of the new bytes (open() truncates the file)
WriteFailOutcomes(old_bytes, new_bytes) ==
    {old_bytes} \cup {SubSeq(new_bytes, 1, k) : k \in {0, Len(new_bytes) \div 2}}

\* open() or write() of lines 156-157 raises: caught in line 167
WriteFail ==
    /\ pc = "write"
    /\ \E left \in WriteFailOutcomes(fs[file_path].data,
                                     WriteText(content, linesep)) :
          fs' = [fs EXCEPT ![file_path] = FileEntry(left)]
    /\ err' = "write"
    /\ ret' = NoResult
    /\ pc' = "ret"
    /\ UNCHANGED <<envVars, runs, dry_run, idx, mainVars, file_path, content,
                   original_content, original_encoding, replacements, printed,
                   call_fs, run_fs, log>>

(***************************************************************************)
(* main, lines 214-217: the pair process_file returned is added to the     *)
(* counters, and the traversal goes on.                                    *)
(***************************************************************************)
Accumulate ==
    /\ pc = "ret"
    /\ total_replacements' = total_replacements + ret[1]
    /\ changed_files' = IF ret[2] THEN changed_files + 1 ELSE changed_files
    /\ idx' = idx + 1
    /\ pc' = "walk"
    /\ log' = Append(log, [run |-> runs, path |-> file_path,
                           dry_run |-> dry_run, err |-> err, ret |-> ret,
                           before |-> call_fs[file_path].data,
                           after |-> fs[file_path].data])
    /\ UNCHANGED <<fs, envVars, runs, dry_run, total_files, exit_code,
                   procVars, run_fs>>

(***************************************************************************)
(* main, lines 219-235: after the traversal the summary is printed and     *)
(* the program ends with exit code 0.                                      *)
(***************************************************************************)
Summary ==
    /\ pc = "walk"
    /\ idx > Len(Listing)
    /\ exit_code' = 0
    /\ pc' = "exited"
    /\ UNCHANGED <<fs, envVars, runs, dry_run, idx, total_files,
                   changed_files, total_replacements, procVars, run_fs, log>>

\* the program is started again on the same directory
Rerun ==
    /\ pc = "exited"
    /\ runs < MaxRuns
    /\ runs' = runs + 1
    /\ pc' = "start"
    /\ UNCHANGED <<fs, envVars, dry_run, idx, mainVars, procVars, run_fs, log>>

(***************************************************************************)
(* One invocation of the program, every file operation of process_file     *)
(* free to fail.                                                           *)
(***************************************************************************)
Next ==
    \/ MainStart
    \/ WalkNext
    \/ ReadFile
    \/ ReadFail
    \/ BackupCopy
    \/ BackupFail
    \/ WriteFile
    \/ WriteFail
    \/ Accumulate
    \/ Summary

Spec == Init /\ [][Next]_vars

(***************************************************************************)
(* Up to MaxRuns invocations in a row on the same directory, every file    *)
(* operation succeeding.                                                   *)
(***************************************************************************)
NextRuns ==
    \/ MainStart
    \/ WalkNext
    \/ ReadFile
    \/ BackupCopy
    \/ WriteFile
    \/ Accumulate
    \/ Summary
    \/ Rerun

\* the tokens of the texts that are processed more than once
RunTokens ==
    { <<195>>,                       \* a lone first half of a broken umlaut
      <<195, 188>>,                  \* broken u-umlaut
      <<226, 8364, 8220>>,           \* broken en dash
      <<CR, LF>> }

InitRuns ==
    /\ \E t \in TextsOf(RunTokens, MaxLen) : fs = Directory(Utf8Encode(t))
    /\ root_exists = TRUE
    /\ InitRest

SpecRuns == InitRuns /\ [][NextRuns]_vars

(***************************************************************************)
(* Inputs made of occurrences of one pattern: file a.php holds n times the *)
(* pattern of one table entry, the occurrences separated by sep.           *)
(***************************************************************************)
RECURSIVE Repeat(_, _, _)
Repeat(word, n, sep) ==
    IF n = 1 THEN word ELSE word \o sep \o Repeat(word, n - 1, sep)

\* nothing, a blank, "x" and a blank
Separators == { << >>, <<32>>, <<120, 32>> }

InitOcc ==
    /\ \E i \in 1..Len(ENCODING_FIXES), n \in 1..MaxOcc, sep \in Separators :
          fs = Directory(Utf8Encode(Repeat(ENCODING_FIXES[i][1], n, sep)))
    /\ root_exists = TRUE
    /\ InitRest

SpecOcc == InitOcc /\ [][Next]_vars

(***************************************************************************)
(* Inputs given as raw bytes: file a.php holds up to MaxBytes bytes, each  *)
(* one of "A", the two bytes of a broken u-umlaut, the byte of a-umlaut in *)
(* the one-byte encodings, and 0x81, which code page 1252 leaves undefined.*)
(***************************************************************************)
ByteSet == {65, 129, 188, 195, 228}

RECURSIVE BytesUpTo(_)
BytesUpTo(n) ==
    IF n = 0 THEN { << >> }
    ELSE LET shorter == BytesUpTo(n - 1)
         IN  shorter \cup { Append(b, x) : b \in shorter, x \in ByteSet }

InitBytes ==
    /\ \E b \in BytesUpTo(MaxBytes) : fs = Directory(b)
    /\ root_exists = TRUE
    /\ InitRest

SpecBytes == InitBytes /\ [][Next]_vars

(***************************************************************************)
(* Vocabulary of the properties.                                           *)
(***************************************************************************)
\* process_file has read its file and has not returned to main yet
InCall == pc \in {"backup", "write", "ret"}

\* no pattern of the table occurs in the text
NoPattern(text) ==
    \A i \in 1..Len(ENCODING_FIXES) : str_count(text, ENCODING_FIXES[i][1]) = 0

\* the diagnostic lines name the pattern
PrintedFor(lines, wrong) == \E k \in 1..Len(lines) : lines[k][1] = wrong

\* the calls of process_file the current invocation has finished
RunLog == SelectSeq(log, LAMBDA c : c.run = runs)

RECURSIVE SumOfCounts(_, _)
SumOfCounts(calls, i) ==
    IF i > Len(calls) THEN 0 ELSE calls[i].ret[1] + SumOfCounts(calls, i + 1)

LeftArrow == <<8592>>
RightArrow == <<8594>>
BrokenArrow == <<226, 8224, 8217>>

\* the patterns of the whole-word entries, lines 40-57
WholeWords ==
    { ENCODING_FIXES_display[i][1] : i \in 16..33 }

(***************************************************************************)
(* C1: in a live call of process_file on a file whose text changes, in     *)
(* every state in which the file holds the corrected text, <path>.backup   *)
(* exists and holds the bytes the file had when the call started; and when *)
(* the backup copy fails, the file is not overwritten and holds the bytes  *)
(* it had when the call started.                                           *)
(***************************************************************************)
C1_BackupBeforeOverwrite ==
    /\ ( /\ InCall
         /\ ~dry_run
         /\ err # "read"
         /\ Changed(content, original_content)
         /\ fs[file_path].data = WriteText(content, linesep) )
       => /\ fs[backup_path(file_path)].kind = "file"
          /\ fs[backup_path(file_path)].data = call_fs[file_path].data
    /\ (pc = "ret" /\ err = "backup")
       => /\ fs[file_path] = call_fs[file_path]
          /\ ret = <<0, FALSE>>

\* a live call has written the corrected text, the backup beside it
C1_Witness ==
    /\ pc = "ret"
    /\ ~dry_run
    /\ err = "none"
    /\ file_path = fileA
    /\ ret[2]
    /\ fs[file_path].data = WriteText(content, linesep)
    /\ fs[file_path].data # call_fs[file_path].data
    /\ fs[backup_path(file_path)].data = call_fs[file_path].data

(***************************************************************************)
(* C4: for a file whose decoded text contains no pattern of the table,     *)
(* process_file, live or dry-run, returns (0, False), writes nothing to    *)
(* the file and creates no backup: the file system is as it was when the   *)
(* call started.                                                           *)
(***************************************************************************)
C4_NoPatternNoWrite ==
    ( /\ InCall
      /\ err = "none"
      /\ NoPattern(original_content) )
    => /\ pc = "ret"
       /\ ret = <<0, FALSE>>
       /\ fs = call_fs
       /\ fs[backup_path(file_path)].kind = "none"

\* a live call on a non-empty text without any pattern has returned
C4_Witness ==
    /\ pc = "ret"
    /\ err = "none"
    /\ ~dry_run
    /\ file_path = fileA
    /\ Len(original_content) > 0
    /\ NoPattern(original_content)
    /\ ret = <<0, FALSE>>

(***************************************************************************)
(* C8: a file whose processing fails (read, decode, backup copy or write)  *)
(* yields (0, False), is counted as scanned but not as changed and adds 0  *)
(* to the total; every other recognized file is still processed and the    *)
(* program ends with exit code 0.  Exit code 1 is given only for a root    *)
(* that does not exist, before any file is processed.                      *)
(***************************************************************************)
C8_ErrorsIsolated ==
    /\ (pc = "ret" /\ err # "none") => ret = <<0, FALSE>>
    /\ exit_code = 1 => (~root_exists /\ RunLog = << >> /\ fs = run_fs)
    /\ (pc = "exited" /\ root_exists)
       => /\ exit_code = 0
          /\ {RunLog[i].path : i \in 1..Len(RunLog)}
                = {p \in AllPaths : Recognized(run_fs, p)}
          /\ total_files = Cardinality({p \in AllPaths : Recognized(run_fs, p)})
          /\ Len(RunLog) = total_files
          /\ changed_files
                = Cardinality({i \in 1..Len(RunLog) :
                                  RunLog[i].err = "none" /\ RunLog[i].ret[2]})
          /\ total_replacements
                = SumOfCounts(SelectSeq(RunLog, LAMBDA c : c.err = "none"), 1)
          /\ \A i \in 1..Len(RunLog) :
                RunLog[i].err # "none" => RunLog[i].ret = <<0, FALSE>>
    /\ (pc = "exited" /\ ~root_exists) => exit_code = 1

\* the first file failed, the second was corrected, and the exit code is 0
C8_Witness ==
    /\ pc = "exited"
    /\ exit_code = 0
    /\ Len(RunLog) = 2
    /\ RunLog[1].err \in {"read", "backup", "write"}
    /\ RunLog[2].err = "none"
    /\ RunLog[2].ret = <<1, TRUE>>
    /\ total_files = 2
    /\ changed_files = 1
    /\ total_replacements = 1

(***************************************************************************)
(* C10: the table holds each pattern once; the broken arrow, written twice *)
(* in the source, is mapped to the right arrow only, so process_file never *)
(* adds a left arrow: the text it produces, and the file it writes, hold   *)
(* no more left arrows than the text it read.                              *)
(***************************************************************************)
C10_NoLeftArrowAdded ==
    /\ LET fixes == ENCODING_FIXES
       IN  /\ Cardinality({fixes[i][1] : i \in 1..Len(fixes)}) = Len(fixes)
           /\ \A i \in 1..Len(fixes) :
                 fixes[i][1] = BrokenArrow => fixes[i][2] = RightArrow
    /\ (InCall /\ err = "none")
       => str_count(content, LeftArrow) <= str_count(original_content, LeftArrow)
    /\ (pc = "ret" /\ err = "none")
       => str_count(Utf8Decode(fs[file_path].data).text, LeftArrow)
             <= str_count(original_content, LeftArrow)

\* a broken arrow was replaced, by the right arrow, in a file that was written
C10_Witness ==
    /\ pc = "ret"
    /\ err = "none"
    /\ ~dry_run
    /\ PrintedFor(printed, BrokenArrow)
    /\ str_count(Utf8Decode(fs[file_path].data).text, RightArrow) > 0
    /\ str_count(original_content, RightArrow) = 0

(***************************************************************************)
(* C9, as claimed: a whole-word entry takes priority over the character    *)
(* entries, that is, whenever the text read holds the pattern of a         *)
(* whole-word entry, that entry finds a nonzero count when the loop        *)
(* reaches it, and so prints its diagnostic line.                          *)
(***************************************************************************)
C9_WholeWordPriority ==
    (InCall /\ err = "none")
    => \A w \in WholeWords :
          str_count(original_content, w) > 0 => PrintedFor(printed, w)

(***************************************************************************)
(* Calls i and j of the log are successive calls on the same path.         *)
(***************************************************************************)
NextCallOnPath(i, j) ==
    /\ i < j
    /\ log[i].path = log[j].path
    /\ \A k \in (i + 1)..(j - 1) : log[k].path # log[i].path

FirstCallOnPath(i) == \A k \in 1..(i - 1) : log[k].path # log[i].path

(***************************************************************************)
(* C3: process_file in dry-run mode leaves the file system as it was (the  *)
(* file is not rewritten, no backup is created) and returns the pair       *)
(* (replacement count, changed flag) that a live call on the same content  *)
(* returns.                                                                *)
(***************************************************************************)
C3_DryRunFrame ==
    /\ dry_run => fs = run_fs
    /\ \A i \in 1..Len(log) : log[i].dry_run => log[i].after = log[i].before
    /\ \A i, j \in 1..Len(log) :
          ( /\ log[i].path = log[j].path
            /\ log[i].before = log[j].before
            /\ log[i].dry_run
            /\ ~log[j].dry_run )
          => log[i].ret = log[j].ret

\* a dry run and then a live run on the same content of a.php, which the live
\* run changes
C3_Witness ==
    \E i, j \in 1..Len(log) :
       /\ i < j
       /\ log[i].path = fileA
       /\ log[j].path = fileA
       /\ log[i].dry_run
       /\ ~log[j].dry_run
       /\ log[i].before = log[j].before
       /\ log[j].after # log[j].before
       /\ log[i].ret = log[j].ret
       /\ log[i].ret[2]
       /\ log[i].ret[1] > 1

(***************************************************************************)
(* C2, as claimed: after any number of successful live runs on a path that *)
(* had no backup at first, the content the file had before the first run   *)
(* is the content of <path> or of <path>.backup.                           *)
(***************************************************************************)
C2_OriginalNeverLost ==
    ( /\ pc = "exited"
      /\ \A i \in 1..Len(log) : ~log[i].dry_run /\ log[i].err = "none" )
    => \A i \in 1..Len(log) :
          FirstCallOnPath(i)
          => \/ fs[log[i].path].data = log[i].before
             \/ /\ fs[backup_path(log[i].path)].kind = "file"
                /\ fs[backup_path(log[i].path)].data = log[i].before

(***************************************************************************)
(* C5, as claimed: after a live run has corrected a file, the next run on  *)
(* that file makes no replacement: it returns (0, False) and leaves the    *)
(* file as it is.                                                          *)
(***************************************************************************)
C5_SecondRunIdle ==
    \A i, j \in 1..Len(log) :
       ( /\ NextCallOnPath(i, j)
         /\ ~log[i].dry_run
         /\ log[i].err = "none"
         /\ log[i].ret[2]
         /\ log[j].err = "none" )
       => /\ log[j].ret = <<0, FALSE>>
          /\ log[j].after = log[j].before

(***************************************************************************)
(* C7: process_file decodes the file with the first of UTF-8,              *)
(* Windows-1252, ISO-8859-1, CP1252, in this order, that accepts its       *)
(* bytes; it reports a read failure only when all four reject them; so     *)
(* bytes that are not valid UTF-8 but are ISO-8859-1 text are decoded by a *)
(* later encoding of the chain and processed.                              *)
(***************************************************************************)
C7_DecodeChain ==
    (InCall /\ err # "read")
    => LET bytes == call_fs[file_path].data
           utf8 == Utf8Decode(bytes).ok
           w1252 == Cp1252Decode(bytes).ok
           latin1 == Latin1Decode(bytes).ok
           first == IF utf8 THEN "utf-8"
                    ELSE IF w1252 THEN "windows-1252"
                    ELSE IF latin1 THEN "iso-8859-1"
                    ELSE IF w1252 THEN "cp1252"
                    ELSE "None"
       IN  /\ (err = "decode") <=> (first = "None")
           /\ err = "decode" => ret = <<0, FALSE>>
           /\ err # "decode"
              => /\ original_encoding = first
                 /\ original_content = ReadText(first, bytes).text
                 /\ content = ApplyFixes(original_content).content
           /\ (~utf8 /\ latin1)
              => /\ err # "decode"
                 /\ original_encoding \in {"windows-1252", "iso-8859-1"}

\* bytes that only ISO-8859-1 accepts were decoded, and a pattern in them was
\* replaced
C7_Witness ==
    /\ pc = "ret"
    /\ err = "none"
    /\ file_path = fileA
    /\ ~Utf8Decode(call_fs[file_path].data).ok
    /\ ~Cp1252Decode(call_fs[file_path].data).ok
    /\ original_encoding = "iso-8859-1"
    /\ ret = <<1, TRUE>>

(***************************************************************************)
(* C6, as claimed: for every entry (P -> R) of the table and every n >= 1, *)
(* on a text of n occurrences of P separated only by characters that occur *)
(* in no pattern, process_file leaves no occurrence of P, puts R in place  *)
(* of each P, and returns the count n.                                     *)
(***************************************************************************)
InNoPattern(sep) ==
    \A k \in 1..Len(sep) :
       \A i \in 1..Len(ENCODING_FIXES) :
          \A m \in 1..Len(ENCODING_FIXES[i][1]) : ENCODING_FIXES[i][1][m] # sep[k]

C6_CountsOccurrences ==
    (pc = "ret" /\ err = "none" /\ file_path = fileA)
    => \A i \in 1..Len(ENCODING_FIXES), n \in 1..MaxOcc, sep \in Separators :
          ( /\ InNoPattern(sep)
            /\ original_content = Repeat(ENCODING_FIXES[i][1], n, sep) )
          => /\ str_count(content, ENCODING_FIXES[i][1]) = 0
             /\ content = Repeat(ENCODING_FIXES[i][2], n, sep)
             /\ ret = <<n, TRUE>>

====
